---- MODULE Spec2Model ----
(***************************************************************************)
(* Model of the ccm data-server (src/index.js): the MongoDB connection     *)
(* lifecycle, the HTTP request handler with its validation, and the        *)
(* get/set/del operations with their asynchronous store callbacks.         *)
(*                                                                         *)
(* JavaScript values are tagged records [t, s, a, o]: t is the type tag,   *)
(* s the characters of a string (a sequence of character codes), a the     *)
(* elements of an array, o the fields of an object.                        *)
(***************************************************************************)
EXTENDS Integers, Sequences, FiniteSets, TLC

\* ------------------------------------------------------------------ bounds
\* number of requests that can be in flight at the same time
NSlots == 2
\* number of requests received over a run with concurrent requests
MaxRequests == 2
\* number of requests received over a run with one request at a time
MaxSerial == 3
\* the clock runs from 0 to MaxTime (one unit = one second of moment().format())
MaxTime == 1
\* longest token and longest composite key given to the key conversions
MaxTokenLen == 1
MaxKeyLen == 2

\* ------------------------------------------------------- JavaScript values
Undef == [t |-> "undef", s |-> <<>>, a |-> <<>>, o |-> <<>>]
Null == [t |-> "null", s |-> <<>>, a |-> <<>>, o |-> <<>>]
True == [t |-> "bool", s |-> <<1>>, a |-> <<>>, o |-> <<>>]
Num(n) == [t |-> "num", s |-> <<n>>, a |-> <<>>, o |-> <<>>]
Str(chars) == [t |-> "str", s |-> chars, a |-> <<>>, o |-> <<>>]
Arr(elems) == [t |-> "arr", s |-> <<>>, a |-> elems, o |-> <<>>]
Obj(fields) == [t |-> "obj", s |-> <<>>, a |-> <<>>, o |-> fields]

\* the empty object {}
NoFields == [f \in {} |-> Undef]

\* JavaScript truthiness of a value (the tests  data.get && ...,  !data.set, ...)
Truthy(v) ==
  \/ v.t \in {"obj", "arr"}
  \/ v.t = "str" /\ v.s # <<>>
  \/ v.t = "num" /\ v.s # <<0>>
  \/ v.t = "bool" /\ v.s = <<1>>

\* obj.name for an object value: undefined when the property is missing
Prop(v, name) == IF v.t = "obj" /\ name \in DOMAIN v.o THEN v.o[name] ELSE Undef

\* ------------------------------------------------------------- key grammar
Comma == 44

\* the character class [a-zA-Z0-9_\-]
TokenChars == (48..57) \cup (65..90) \cup (97..122) \cup {95, 45}

\* /^[a-zA-Z0-9_\-]+$/.test( chars )
RegexTest(chars) == Len(chars) > 0 /\ \A i \in 1..Len(chars) : chars[i] \in TokenChars

isKey(value) ==
  IF value.t = "str" THEN RegexTest(value.s)
  ELSE IF value.t = "arr" THEN \A i \in 1..Len(value.a) : RegexTest(value.a[i].s)
  ELSE FALSE

isObject(value) == value.t = "obj"

\* --------------------------------------------------------- key conversion
RECURSIVE Join(_)
\* Array.prototype.join(): the elements' characters separated by commas
Join(elems) ==
  IF Len(elems) = 0 THEN <<>>
  ELSE IF Len(elems) = 1 THEN elems[1].s
  ELSE elems[1].s \o <<Comma>> \o Join(Tail(elems))

convertKey(key) == IF key.t = "arr" THEN Str(Join(key.a)) ELSE key

RECURSIVE Split(_, _)
\* String.prototype.split( ',' ): cur is the piece read so far
Split(chars, cur) ==
  IF Len(chars) = 0 THEN <<Str(cur)>>
  ELSE IF Head(chars) = Comma THEN <<Str(cur)>> \o Split(Tail(chars), <<>>)
  ELSE Split(Tail(chars), Append(cur, Head(chars)))

\* reconvertKey that never splits
reconvertKey_noSplit(key) == key

reconvertKey(key) ==
  IF key.t = "str" /\ \E i \in 1..Len(key.s) : key.s[i] = Comma
  THEN Arr(Split(key.s, <<>>))
  ELSE key

\* ------------------------------------------------------ dataset conversion
\* JSON.parse( JSON.stringify( obj ) ) on the fields of an object: properties
\* whose value is undefined are dropped
clone(fields) == [f \in {g \in DOMAIN fields : fields[g].t # "undef"} |-> fields[f]]

\* fields of the MongoDB document of a ccm dataset
convertDataset(ccm_dataset) ==
  LET c == clone(ccm_dataset)
      k == IF "key" \in DOMAIN c THEN c["key"] ELSE Undef
  IN [f \in (DOMAIN c \ {"key"}) \cup {"_id"} |-> IF f = "_id" THEN convertKey(k) ELSE c[f]]

\* the ccm dataset (an object value) of a MongoDB document
reconvertDataset(mongodb_dataset) ==
  LET c == clone(mongodb_dataset)
      id == IF "_id" \in DOMAIN c THEN c["_id"] ELSE Undef
  IN Obj([f \in (DOMAIN c \ {"_id"}) \cup {"key"} |-> IF f = "key" THEN reconvertKey(id) ELSE c[f]])

\* ------------------------------------------------------ request validation
checkReceivedData(data) ==
  IF Truthy(data.store) /\ data.store.t # "str" THEN FALSE
  ELSE IF Truthy(data.get) /\ ~isKey(data.get) /\ ~isObject(data.get) THEN FALSE
  ELSE IF Truthy(data.set) /\ ~isObject(data.set) THEN FALSE
  ELSE IF Truthy(data.set) /\ (~Truthy(Prop(data.set, "key")) \/ ~isKey(Prop(data.set, "key"))) THEN FALSE
  ELSE IF Truthy(data.del) /\ ~isKey(data.del) THEN FALSE
  ELSE TRUE

\* ------------------------------------------------------------ sample data
s_u1 == <<117, 49>>
s_a == <<97>>
s_b == <<98>>
s_c2 == <<99, 50>>
s_5 == <<53>>
s_X == <<88>>
s_Ann == <<65, 110, 110>>
\* "bad key!"
s_bad == <<98, 97, 100, 32, 107, 101, 121, 33>>

\* received data with the given operands; absent properties are undefined
Data(store, get, set, del) == [store |-> store, get |-> get, set |-> set, del |-> del]

\* a dataset { key: key, ...fields }
Dataset(key, fields) ==
  Obj([f \in DOMAIN fields \cup {"key"} |-> IF f = "key" THEN key ELSE fields[f]])

f_name(v) == [f \in {"name"} |-> Str(v)]
f_name_age == [f \in {"name", "age"} |-> IF f = "name" THEN Str(s_Ann) ELSE Str(s_5)]
f_unset == [f \in {"name", "nick"} |-> IF f = "name" THEN Str(<<>>) ELSE Str(s_X)]
f_created == [f \in {"created_at"} |-> Str(s_X)]

\* data of requests that pass the validation and name one operation
ValidData ==
  { Data(Undef, Str(s_u1), Undef, Undef),
    Data(Undef, Obj(NoFields), Undef, Undef),
    Data(Undef, Obj(f_name(s_Ann)), Undef, Undef),
    Data(Undef, Undef, Dataset(Str(s_u1), f_name_age), Undef),
    Data(Undef, Undef, Dataset(Str(s_u1), f_unset), Undef),
    Data(Undef, Undef, Dataset(Str(s_u1), f_created), Undef),
    Data(Undef, Undef, Dataset(Arr(<<>>), f_name(s_Ann)), Undef),
    Data(Undef, Undef, Dataset(Arr(<<>>), f_unset), Undef),
    Data(Undef, Undef, Dataset(Arr(<<Str(s_a), Str(s_b)>>), f_name(s_Ann)), Undef),
    Data(Str(s_c2), Undef, Dataset(Str(s_u1), f_name(s_Ann)), Undef),
    Data(Undef, Undef, Undef, Str(s_u1)) }

\* data with no operation, several operations, or a malformed operand
OddData ==
  { Data(Undef, Undef, Undef, Undef),
    Data(Undef, Str(s_u1), Dataset(Str(s_u1), f_name(s_Ann)), Undef),
    Data(Undef, Undef, Dataset(Str(s_u1), f_name(s_Ann)), Str(s_u1)),
    Data(Undef, Str(s_u1), Undef, Str(<<>>)),
    Data(Undef, Undef, Undef, Str(<<>>)),
    Data(Undef, Str(s_bad), Undef, Undef),
    Data(Undef, Undef, Dataset(Str(s_bad), f_name(s_Ann)), Undef),
    Data(Undef, Undef, Obj(f_name(s_Ann)), Undef),
    Data(Undef, Undef, Str(s_u1), Undef),
    Data(Undef, Str(s_u1), Undef, Str(s_bad)),
    Data(Undef, Undef, Undef, Arr(<<Str(s_a), Str(s_bad)>>)) }

\* data only a JSON body can carry (a query string yields no number)
JsonData ==
  { Data(Num(5), Str(s_u1), Undef, Undef),
    Data(Undef, Num(5), Undef, Undef) }

\* data sent both ways: a read and a write
BothWays ==
  { Data(Undef, Str(s_u1), Undef, Undef),
    Data(Undef, Undef, Dataset(Str(s_u1), f_name_age), Undef) }

\* an HTTP request: a GET carries its data in the query string, a POST in a
\* body that is JSON ("json"), not parsable ("garbage") or over max_data_size
HttpRequests ==
  [method : {"GET"}, body : {"json"}, data : ValidData \cup OddData]
  \cup [method : {"POST"}, body : {"json"}, data : BothWays]
  \cup [method : {"POST"}, body : {"json"}, data : JsonData]
  \cup [method : {"POST"}, body : {"garbage", "oversize"}, data : {Data(Undef, Undef, Undef, Undef)}]

\* the requests of the runs with concurrent requests: reads, writes and
\* deletes of one key
CoreData ==
  { Data(Undef, Str(s_u1), Undef, Undef),
    Data(Undef, Undef, Dataset(Str(s_u1), f_name_age), Undef),
    Data(Undef, Undef, Dataset(Str(s_u1), f_unset), Undef),
    Data(Undef, Undef, Undef, Str(s_u1)) }

CoreRequests == [method : {"GET"}, body : {"json"}, data : CoreData]

Slots == 1..NSlots

\* names of the collections the sample data address (undefined: no store given)
Colls == {Undef, Str(s_c2)}

NoRequest == [method |-> "GET", body |-> "json", data |-> Data(Undef, Undef, Undef, Undef)]
NoResponse == [status |-> 0, body |-> Undef]
NoWrite == [op |-> "none", id |-> Undef, set |-> NoFields, unset |-> {}]

\* ------------------------------------------------------------------- state
VARIABLES
  mongodb,    \* "module": the required npm module, "db": the connected database, "null"
  connPc,     \* "load", "connecting", "timer" (setTimeout pending), "ready" (callback called)
  waited,     \* the argument `waited` of the running connectMongoDB call
  attempts,   \* number of MongoClient.connect calls made so far
  failures,   \* number of MongoClient.connect calls that reported an error
  readyCalls, \* number of times the callback of connectMongoDB was called
  listening,  \* the HTTP server was created and listens (startWebserver)
  crashed,    \* the process died of an uncaught exception
  now,        \* the last time read by moment()
  store,      \* collection name -> set of the documents of the collection
  received,   \* number of requests received so far
  pc,         \* per slot: "idle", "find", "write", "reread", "remove", "done"
  req,        \* per slot: the HTTP request being handled
  existing,   \* per slot: existing_dataset of set() and del()
  write,      \* per slot: the insert or update call issued by set()
  result,     \* per slot: the result finish() hands to the callback of the operation
  resp,       \* per slot: the response sent
  calls,      \* per slot: the store calls issued for the request, in order
  failed,     \* per slot: a store call of the request reported an error
  cpc,        \* conversions on their own: "off", "input", "converted", "reconverted"
  key_in,     \* a ccm dataset key
  id_out,     \* convertKey( key_in )
  key_back,   \* reconvertKey( id_out )
  rec_in,     \* a ccm dataset with the key key_in
  doc_out,    \* convertDataset( rec_in )
  rec_back    \* reconvertDataset( doc_out )

vars == <<mongodb, connPc, waited, attempts, failures, readyCalls, listening, crashed, now,
          store, received, pc, req, existing, write, result, resp, calls, failed,
          cpc, key_in, id_out, key_back, rec_in, doc_out, rec_back>>

connVars == <<mongodb, connPc, waited, attempts, failures, readyCalls, listening>>
reqVars == <<received, pc, req, existing, write, result, resp, calls, failed>>
codecVars == <<cpc, key_in, id_out, key_back, rec_in, doc_out, rec_back>>

\* the process after the module is loaded
ProgramInit ==
  /\ mongodb = "module"
  /\ connPc = "load"
  /\ waited = FALSE
  /\ attempts = 0
  /\ failures = 0
  /\ readyCalls = 0
  /\ listening = FALSE
  /\ crashed = FALSE
  /\ now = 0
  /\ store = [c \in Colls |-> {}]
  /\ received = 0
  /\ pc = [r \in Slots |-> "idle"]
  /\ req = [r \in Slots |-> NoRequest]
  /\ existing = [r \in Slots |-> Undef]
  /\ write = [r \in Slots |-> NoWrite]
  /\ result = [r \in Slots |-> Undef]
  /\ resp = [r \in Slots |-> NoResponse]
  /\ calls = [r \in Slots |-> <<>>]
  /\ failed = [r \in Slots |-> FALSE]

\* no conversion is run on its own
CodecOff ==
  /\ cpc = "off"
  /\ key_in = Undef
  /\ id_out = Undef
  /\ key_back = Undef
  /\ rec_in = Undef
  /\ doc_out = NoFields
  /\ rec_back = Undef

Init == ProgramInit /\ CodecOff

\* ------------------------------------------------------ connection lifecycle
\* connectMongoDB( callback, waited ) up to the call of MongoClient.connect
connectMongoDB ==
  /\ ~crashed
  /\ UNCHANGED codecVars
  /\ connPc = "load"
  /\ IF mongodb = "null"
     THEN /\ connPc' = "ready"
          /\ readyCalls' = readyCalls + 1
          /\ listening' = TRUE
          /\ UNCHANGED attempts
     ELSE /\ connPc' = "connecting"
          /\ attempts' = attempts + 1
          /\ UNCHANGED <<readyCalls, listening>>
  /\ UNCHANGED <<mongodb, waited, failures, crashed, now, store>>
  /\ UNCHANGED reqVars

\* connectCallback retrying after every failure, whether it waited or not
connectCallback_retryAlways(err) ==
  /\ ~crashed
  /\ UNCHANGED codecVars
  /\ connPc = "connecting"
  /\ IF ~err
     THEN /\ mongodb' = "db"
          /\ connPc' = "ready"
          /\ readyCalls' = readyCalls + 1
          /\ listening' = TRUE
     ELSE /\ connPc' = "timer"
          /\ UNCHANGED <<mongodb, readyCalls, listening>>
  /\ failures' = IF err THEN failures + 1 ELSE failures
  /\ UNCHANGED <<waited, attempts, crashed, now, store>>
  /\ UNCHANGED reqVars

\* connectCallback calling the callback after the first failure too
connectCallback_readyTwice(err) ==
  /\ ~crashed
  /\ UNCHANGED codecVars
  /\ connPc = "connecting"
  /\ IF ~err
     THEN /\ mongodb' = "db"
          /\ connPc' = "ready"
          /\ readyCalls' = readyCalls + 1
          /\ listening' = TRUE
     ELSE IF ~waited
     THEN /\ connPc' = "timer"
          /\ readyCalls' = readyCalls + 1
          /\ listening' = TRUE
          /\ UNCHANGED mongodb
     ELSE /\ mongodb' = "null"
          /\ connPc' = "ready"
          /\ readyCalls' = readyCalls + 1
          /\ listening' = TRUE
  /\ failures' = IF err THEN failures + 1 ELSE failures
  /\ UNCHANGED <<waited, attempts, crashed, now, store>>
  /\ UNCHANGED reqVars

\* the callback of MongoClient.connect, called with or without an error; the
\* callback of connectMongoDB starts the webserver
connectCallback(err) ==
  /\ ~crashed
  /\ UNCHANGED codecVars
  /\ connPc = "connecting"
  /\ IF ~err
     THEN /\ mongodb' = "db"
          /\ connPc' = "ready"
          /\ readyCalls' = readyCalls + 1
          /\ listening' = TRUE
     ELSE IF ~waited
     THEN /\ connPc' = "timer"
          /\ UNCHANGED <<mongodb, readyCalls, listening>>
     ELSE /\ mongodb' = "null"
          /\ connPc' = "ready"
          /\ readyCalls' = readyCalls + 1
          /\ listening' = TRUE
  /\ failures' = IF err THEN failures + 1 ELSE failures
  /\ UNCHANGED <<waited, attempts, crashed, now, store>>
  /\ UNCHANGED reqVars

\* the 3000 ms timer fires: connectMongoDB( callback, true )
retryTimeout ==
  /\ ~crashed
  /\ UNCHANGED codecVars
  /\ connPc = "timer"
  /\ waited' = TRUE
  /\ connPc' = "load"
  /\ UNCHANGED <<mongodb, attempts, failures, readyCalls, listening, crashed, now, store>>
  /\ UNCHANGED reqVars

\* -------------------------------------------------------------- the store
\* the collection mongodb.collection( name ) yields
Coll(name) == IF name \in Colls THEN name ELSE Undef

\* documents matching a find/update/remove query (fields that must be equal);
\* an undefined value in the query matches no document
Matches(doc, query) ==
  \A f \in DOMAIN query :
    query[f].t # "undef" /\ f \in DOMAIN doc /\ doc[f] = query[f]

Find(docs, query) == {d \in docs : Matches(d, query)}

IdQuery(id) == [f \in {"_id"} |-> id]

\* the sequences listing the elements of a set once each: the orders in which
\* a cursor may deliver the documents
Orders(S) ==
  {q \in [1..Cardinality(S) -> S] : \A i, j \in 1..Cardinality(S) : q[i] = q[j] => i = j}

\* collection.insert( doc ): _id is unique in a collection
InsertFails(docs, doc) == \E d \in docs : d["_id"] = doc["_id"]
Insert(docs, doc) == IF InsertFails(docs, doc) THEN docs ELSE docs \cup {doc}

\* one document after { $set: set, $unset: unset }
Modify(doc, set, unset) ==
  [f \in (DOMAIN doc \cup DOMAIN set) \ unset |-> IF f \in DOMAIN set THEN set[f] ELSE doc[f]]

\* collection.update( { _id: id }, { $set: set, $unset: unset } ): no upsert
Update(docs, id, set, unset) ==
  {IF Matches(d, IdQuery(id)) THEN Modify(d, set, unset) ELSE d : d \in docs}

\* a remove that leaves the document in place
Remove_nothing(docs, id) == docs

\* a remove that empties the collection
Remove_all(docs, id) == {}

\* collection.remove( { _id: id } )
Remove(docs, id) == {d \in docs : ~Matches(d, IdQuery(id))}

\* ------------------------------------------------------------- operations
\* the operation useMongoDB selects for the data
Operation(data) ==
  IF Truthy(data.get) THEN "get"
  ELSE IF Truthy(data.set) THEN "set"
  ELSE IF Truthy(data.del) THEN "del"
  ELSE "none"

\* the key or query the first getDataset call of the operation reads
FirstRead(data) ==
  IF Truthy(data.get) THEN data.get
  ELSE IF Truthy(data.set) THEN Prop(data.set, "key")
  ELSE data.del

\* the query getDataset hands to collection.find
FindQuery(key_or_query) ==
  IF isObject(key_or_query) THEN key_or_query.o ELSE IdQuery(convertKey(key_or_query))

\* getDataset without the step that picks the one dataset read by key
getDataset_array(key_or_query, res) ==
  Arr([i \in 1..Len(res) |-> reconvertDataset(res[i])])

\* the result getDataset hands to its callback when find delivers res
getDataset(key_or_query, res) ==
  LET conv == [i \in 1..Len(res) |-> reconvertDataset(res[i])]
  IN IF ~isObject(key_or_query)
     THEN (IF Len(conv) > 0 THEN conv[1] ELSE Null)
     ELSE Arr(conv)

\* moment().format()
Format(time) == Str(<<48 + time>>)

\* the store call set() issues after reading existing_dataset at the given time
SetWrite(dataset, existing_dataset, time) ==
  LET converted == convertDataset(dataset.o)
      priodata == [f \in DOMAIN converted \cup {"updated_at"} |->
                     IF f = "updated_at" THEN Format(time) ELSE converted[f]]
      unset_data == {f \in DOMAIN priodata : priodata[f] = Str(<<>>)}
      rest == [f \in DOMAIN priodata \ unset_data |-> priodata[f]]
  IN IF Truthy(existing_dataset)
     THEN [op |-> "update",
           id |-> IF "_id" \in DOMAIN rest THEN rest["_id"] ELSE Undef,
           set |-> rest, unset |-> unset_data]
     ELSE [op |-> "insert", id |-> priodata["_id"],
           set |-> [f \in DOMAIN priodata \cup {"created_at"} |->
                      IF f = "created_at" THEN priodata["updated_at"] ELSE priodata[f]],
           unset |-> {}]

\* send( response_data ) and sendForbidden()
Send(r, response_data) == resp' = [resp EXCEPT ![r] = [status |-> 200, body |-> response_data]]
SendStatus(r, code) == resp' = [resp EXCEPT ![r] = [status |-> code, body |-> Undef]]

\* an exception nobody catches ends the process; the request stays unanswered
Throw(r) ==
  /\ crashed' = TRUE
  /\ pc' = [pc EXCEPT ![r] = "thrown"]
  /\ resp' = [resp EXCEPT ![r] = NoResponse]

\* handleRequest( request, response ) for a request arriving at a free slot,
\* up to the first asynchronous store call; collErr: mongodb.collection reports
\* an error, sync: it calls its callback before it returns
handleRequest(r, request, collErr, sync) ==
  /\ ~crashed
  /\ UNCHANGED codecVars
  /\ listening
  /\ pc[r] \in {"idle", "done"}
  /\ \A q \in Slots : q < r => pc[q] \notin {"idle", "done"}
  /\ received' = received + 1
  /\ req' = [req EXCEPT ![r] = request]
  /\ existing' = [existing EXCEPT ![r] = Undef]
  /\ write' = [write EXCEPT ![r] = NoWrite]
  /\ result' = [result EXCEPT ![r] = Undef]
  /\ UNCHANGED <<now, store>>
  /\ UNCHANGED connVars
  /\ LET data == request.data
         answer(code) == /\ SendStatus(r, code)
                         /\ pc' = [pc EXCEPT ![r] = "done"]
                         /\ UNCHANGED crashed
     IN IF request.method = "POST" /\ request.body = "oversize"
        THEN answer(413) /\ calls' = [calls EXCEPT ![r] = <<>>] /\ failed' = [failed EXCEPT ![r] = FALSE]
        ELSE IF request.method = "POST" /\ request.body = "garbage"
        THEN answer(403) /\ calls' = [calls EXCEPT ![r] = <<>>] /\ failed' = [failed EXCEPT ![r] = FALSE]
        ELSE IF ~checkReceivedData(data)
        THEN answer(403) /\ calls' = [calls EXCEPT ![r] = <<>>] /\ failed' = [failed EXCEPT ![r] = FALSE]
        ELSE IF ~Truthy(data.get) /\ ~Truthy(data.set) /\ ~Truthy(data.del)
        THEN answer(403) /\ calls' = [calls EXCEPT ![r] = <<>>] /\ failed' = [failed EXCEPT ![r] = FALSE]
        ELSE IF mongodb = "null"
        THEN \* mongodb.collection on null: TypeError, caught for a POST only
             /\ calls' = [calls EXCEPT ![r] = <<>>]
             /\ failed' = [failed EXCEPT ![r] = FALSE]
             /\ IF request.method = "POST" THEN answer(403) ELSE Throw(r)
        ELSE IF collErr
        THEN \* collection is undefined: collection.find throws a TypeError
             /\ calls' = [calls EXCEPT ![r] = <<"collection">>]
             /\ failed' = [failed EXCEPT ![r] = TRUE]
             /\ IF request.method = "POST" /\ sync THEN answer(403) ELSE Throw(r)
        ELSE /\ calls' = [calls EXCEPT ![r] = <<"collection", "find">>]
             /\ failed' = [failed EXCEPT ![r] = FALSE]
             /\ pc' = [pc EXCEPT ![r] = "find"]
             /\ resp' = [resp EXCEPT ![r] = NoResponse]
             /\ UNCHANGED crashed

\* a first read that waits while another request is between its read and its write
findCallback_locked(r, err) ==
  /\ ~crashed
  /\ UNCHANGED codecVars
  /\ pc[r] = "find"
  /\ \A q \in Slots \ {r} : pc[q] # "write"
  /\ failed' = [failed EXCEPT ![r] = @ \/ err]
  /\ UNCHANGED <<store, received, req>>
  /\ UNCHANGED connVars
  /\ LET data == req[r].data
         key_or_query == FirstRead(data)
         docs == Find(store[Coll(data.store)], FindQuery(key_or_query))
     IN IF err
        THEN \* res is undefined: res.length throws a TypeError
             /\ Throw(r)
             /\ UNCHANGED <<now, existing, write, result, calls>>
        ELSE \E res \in Orders(docs) :
               LET results == getDataset(key_or_query, res)
               IN IF Operation(data) = "get"
                  THEN /\ result' = [result EXCEPT ![r] = results]
                       /\ Send(r, results)
                       /\ pc' = [pc EXCEPT ![r] = "done"]
                       /\ UNCHANGED <<now, crashed, existing, write, calls>>
                  ELSE IF Operation(data) = "set"
                  THEN /\ now' \in now..MaxTime
                       /\ existing' = [existing EXCEPT ![r] = results]
                       /\ write' = [write EXCEPT ![r] = SetWrite(data.set, results, now')]
                       /\ calls' = [calls EXCEPT ![r] = Append(@, write'[r].op)]
                       /\ pc' = [pc EXCEPT ![r] = "write"]
                       /\ UNCHANGED <<crashed, result, resp>>
                  ELSE /\ existing' = [existing EXCEPT ![r] = results]
                       /\ calls' = [calls EXCEPT ![r] = Append(@, "remove")]
                       /\ pc' = [pc EXCEPT ![r] = "remove"]
                       /\ UNCHANGED <<now, crashed, write, result, resp>>

\* the toArray callback of the first getDataset call of an operation; set()
\* reads the clock, which never runs backwards
findCallback(r, err) ==
  /\ ~crashed
  /\ UNCHANGED codecVars
  /\ pc[r] = "find"
  /\ failed' = [failed EXCEPT ![r] = @ \/ err]
  /\ UNCHANGED <<store, received, req>>
  /\ UNCHANGED connVars
  /\ LET data == req[r].data
         key_or_query == FirstRead(data)
         docs == Find(store[Coll(data.store)], FindQuery(key_or_query))
     IN IF err
        THEN \* res is undefined: res.length throws a TypeError
             /\ Throw(r)
             /\ UNCHANGED <<now, existing, write, result, calls>>
        ELSE \E res \in Orders(docs) :
               LET results == getDataset(key_or_query, res)
               IN IF Operation(data) = "get"
                  THEN /\ result' = [result EXCEPT ![r] = results]
                       /\ Send(r, results)
                       /\ pc' = [pc EXCEPT ![r] = "done"]
                       /\ UNCHANGED <<now, crashed, existing, write, calls>>
                  ELSE IF Operation(data) = "set"
                  THEN /\ now' \in now..MaxTime
                       /\ existing' = [existing EXCEPT ![r] = results]
                       /\ write' = [write EXCEPT ![r] = SetWrite(data.set, results, now')]
                       /\ calls' = [calls EXCEPT ![r] = Append(@, write'[r].op)]
                       /\ pc' = [pc EXCEPT ![r] = "write"]
                       /\ UNCHANGED <<crashed, result, resp>>
                  ELSE /\ existing' = [existing EXCEPT ![r] = results]
                       /\ calls' = [calls EXCEPT ![r] = Append(@, "remove")]
                       /\ pc' = [pc EXCEPT ![r] = "remove"]
                       /\ UNCHANGED <<now, crashed, write, result, resp>>

\* success(): the callback of collection.insert / collection.update, which
\* ignores the error the store reports and reads the dataset again
success(r, err) ==
  /\ ~crashed
  /\ UNCHANGED codecVars
  /\ pc[r] = "write"
  /\ failed' = [failed EXCEPT ![r] = @ \/ err]
  /\ LET c == Coll(req[r].data.store)
         w == write[r]
         docs == IF err THEN store[c]
                 ELSE IF w.op = "insert" THEN Insert(store[c], w.set)
                 ELSE Update(store[c], w.id, w.set, w.unset)
     IN store' = [store EXCEPT ![c] = docs]
  /\ calls' = [calls EXCEPT ![r] = Append(@, "find")]
  /\ pc' = [pc EXCEPT ![r] = "reread"]
  /\ UNCHANGED <<now, crashed, received, req, existing, write, result, resp>>
  /\ UNCHANGED connVars

\* the toArray callback of the getDataset call of success(), then finish and
\* the callback of performDatabaseOperation
rereadCallback(r, err) ==
  /\ ~crashed
  /\ UNCHANGED codecVars
  /\ pc[r] = "reread"
  /\ failed' = [failed EXCEPT ![r] = @ \/ err]
  /\ existing' = [existing EXCEPT ![r] = Undef]
  /\ write' = [write EXCEPT ![r] = NoWrite]
  /\ UNCHANGED <<now, store, received, req, calls>>
  /\ UNCHANGED connVars
  /\ LET data == req[r].data
         key == Prop(data.set, "key")
         docs == Find(store[Coll(data.store)], FindQuery(key))
     IN IF err
        THEN Throw(r) /\ UNCHANGED result
        ELSE \E res \in Orders(docs) :
               LET results == getDataset(key, res)
               IN /\ result' = [result EXCEPT ![r] = results]
                  /\ IF results.t = "null"
                     THEN \* result.key on null throws a TypeError
                          Throw(r)
                     ELSE /\ Send(r, Prop(results, "key"))
                          /\ pc' = [pc EXCEPT ![r] = "done"]
                          /\ UNCHANGED crashed

\* the callback of collection.remove, which ignores the error the store reports
removeCallback(r, err) ==
  /\ ~crashed
  /\ UNCHANGED codecVars
  /\ pc[r] = "remove"
  /\ failed' = [failed EXCEPT ![r] = @ \/ err]
  /\ LET c == Coll(req[r].data.store)
     IN store' = [store EXCEPT ![c] =
                    IF err THEN @ ELSE Remove(@, convertKey(req[r].data.del))]
  /\ result' = [result EXCEPT ![r] = existing[r]]
  /\ Send(r, True)
  /\ pc' = [pc EXCEPT ![r] = "done"]
  /\ existing' = [existing EXCEPT ![r] = Undef]
  /\ UNCHANGED <<now, crashed, received, req, write, calls>>
  /\ UNCHANGED connVars

\* ----------------------------------------------------------- specification
\* the outcomes of mongodb.collection
Acquire(r, request) ==
  \/ handleRequest(r, request, FALSE, TRUE)
  \/ \E sync \in BOOLEAN : handleRequest(r, request, TRUE, sync)

Connect ==
  \/ connectMongoDB
  \/ \E err \in BOOLEAN : connectCallback(err)
  \/ retryTimeout

Callbacks ==
  \/ \E r \in Slots, err \in BOOLEAN : findCallback(r, err)
  \/ \E r \in Slots, err \in BOOLEAN : success(r, err)
  \/ \E r \in Slots, err \in BOOLEAN : rereadCallback(r, err)
  \/ \E r \in Slots, err \in BOOLEAN : removeCallback(r, err)

\* concurrent well-formed requests
Next ==
  \/ Connect
  \/ \E r \in Slots, request \in CoreRequests :
       received < MaxRequests /\ Acquire(r, request)
  \/ Callbacks

Spec == Init /\ [][Next]_vars

\* requests of every shape, one at a time
Quiet == \A q \in Slots : pc[q] \in {"idle", "done"}

NextGateway ==
  \/ Connect
  \/ \E r \in Slots, request \in HttpRequests :
       received < MaxSerial /\ Quiet /\ Acquire(r, request)
  \/ Callbacks

GatewaySpec == Init /\ [][NextGateway]_vars

\* the conversions of keys and datasets on their own
Alphabet == {97, 98}

RECURSIVE SeqsUpTo(_, _)
\* the sequences over S of length 0..n
SeqsUpTo(S, n) ==
  IF n = 0 THEN {<<>>}
  ELSE LET shorter == SeqsUpTo(S, n - 1)
       IN shorter \cup {Append(q, x) : q \in shorter, x \in S}

Tokens == SeqsUpTo(Alphabet, MaxTokenLen) \ {<<>>}

\* the keys isKey accepts, over the tokens
Keys ==
  {Str(t) : t \in Tokens} \cup {Arr(q) : q \in SeqsUpTo({Str(t) : t \in Tokens}, MaxKeyLen)}

\* the fields of a dataset besides its key: name, tags and _id, each optional
FieldSets ==
  {[f \in fs |-> IF f = "name" THEN n ELSE IF f = "tags" THEN Arr(<<Str(s_a)>>) ELSE Str(s_X)] :
     fs \in SUBSET {"name", "tags", "_id"}, n \in {Str(<<>>), Str(s_Ann)}}

CodecInit ==
  /\ ProgramInit
  /\ cpc = "input"
  /\ key_in \in Keys
  /\ \E fields \in FieldSets : rec_in = Dataset(key_in, fields)
  /\ id_out = Undef
  /\ key_back = Undef
  /\ doc_out = NoFields
  /\ rec_back = Undef

\* convertKey( key ) and convertDataset( ccm_dataset )
CodecConvert ==
  /\ cpc = "input"
  /\ cpc' = "converted"
  /\ id_out' = convertKey(key_in)
  /\ doc_out' = convertDataset(rec_in.o)
  /\ UNCHANGED <<key_in, rec_in, key_back, rec_back, crashed, now, store>>
  /\ UNCHANGED connVars
  /\ UNCHANGED reqVars

\* reconvertKey( key ) and reconvertDataset( mongodb_dataset )
CodecReconvert ==
  /\ cpc = "converted"
  /\ cpc' = "reconverted"
  /\ key_back' = reconvertKey(id_out)
  /\ rec_back' = reconvertDataset(doc_out)
  /\ UNCHANGED <<key_in, rec_in, id_out, doc_out, crashed, now, store>>
  /\ UNCHANGED connVars
  /\ UNCHANGED reqVars

CodecNext == CodecConvert \/ CodecReconvert

CodecSpec == CodecInit /\ [][CodecNext]_vars

\* liveness: the driver always calls the connect callback and the timer fires
LiveSpec == Spec /\ WF_vars(Connect)

\* ------------------------------------------------------------------ claims
\* a slot holds a request whose handling has started
Handled(r) == pc[r] # "idle"

\* a slot holds a request whose handling has ended, with a response or an exception
Ended(r) == pc[r] \in {"done", "thrown"}

\* an operand is present in the data
Present(v) == v.t # "undef"

\* a request that asks for a data operation in a parsable query string or body
DataOperation(q) ==
  /\ q.body = "json"
  /\ Present(q.data.get) \/ Present(q.data.set) \/ Present(q.data.del)

Forbidden(r) == pc[r] = "done" /\ resp[r] = [status |-> 403, body |-> Undef]

\* C1: once both connection attempts failed, every get, set or del request,
\* GET or POST, is answered with 403, issues no store call, and the process
\* does not die of an exception.
C1_UnavailableForbidden ==
  mongodb = "null" =>
    /\ ~crashed
    /\ \A r \in Slots :
         Handled(r) /\ DataOperation(req[r]) => Forbidden(r) /\ calls[r] = <<>>

\* number of the operands get, set, del present in the data
PresentCount(data) ==
  Cardinality({n \in {"get", "set", "del"} :
                 Present(IF n = "get" THEN data.get ELSE IF n = "set" THEN data.set ELSE data.del)})

\* C2: with the store connected, a request carrying two or more of get, set,
\* del, or none of them, is answered with 403 and issues no store call.
C2_ExactlyOneOperand ==
  \A r \in Slots :
    /\ mongodb = "db"
    /\ Handled(r)
    /\ req[r].body = "json"
    /\ PresentCount(req[r].data) # 1
    => Forbidden(r) /\ calls[r] = <<>>

\* an operand that is present and malformed
Malformed(data) ==
  \/ Present(data.get) /\ ~isKey(data.get) /\ ~isObject(data.get)
  \/ Present(data.set) /\ (~isObject(data.set) \/ ~isKey(Prop(data.set, "key")))
  \/ Present(data.del) /\ ~isKey(data.del)

\* C3: with the store connected, a request with a malformed get, set or del
\* operand (falsy ones such as "" included) is answered with 403 and issues
\* no store call, whatever other operands it carries.
C3_MalformedForbidden ==
  \A r \in Slots :
    /\ mongodb = "db"
    /\ Handled(r)
    /\ req[r].body = "json"
    /\ Malformed(req[r].data)
    => Forbidden(r) /\ calls[r] = <<>>

\* the documents of a collection stored under an identifier
Stored(docs, id) == {d \in docs : d["_id"] = id}

\* request r completes its insert or update in this step, the store reporting no error
Writes(r) == pc[r] = "write" /\ pc'[r] = "reread" /\ ~failed'[r]

\* C4: the first set of a key creates a record with created_at = updated_at;
\* every later set stamps updated_at with the time of the write and leaves
\* created_at as it was, whatever fields the request carries.
C4_Timestamps ==
  [][\A r \in Slots :
       Writes(r) =>
         LET c == Coll(req[r].data.store)
             id == convertKey(Prop(req[r].data.set, "key"))
             before == Stored(store[c], id)
             after == Stored(store'[c], id)
         IN /\ after # {}
            /\ \A d2 \in after :
                 /\ "updated_at" \in DOMAIN d2
                 /\ "created_at" \in DOMAIN d2
                 /\ d2["updated_at"] = write[r].set["updated_at"]
                 /\ before = {} => d2["created_at"] = d2["updated_at"]
                 /\ \A d \in before :
                      "created_at" \in DOMAIN d /\ d2["created_at"] = d["created_at"]]_vars

\* C5: with the store connected, a set request whose store calls report no
\* error ends with the response 200 carrying the key of the request, under
\* any interleaving with other set and del requests.
C5_SetAnswersKey ==
  \A r \in Slots :
    /\ mongodb = "db"
    /\ Ended(r)
    /\ Operation(req[r].data) = "set"
    /\ ~failed[r]
    => /\ pc[r] = "done"
       /\ resp[r] = [status |-> 200, body |-> Prop(req[r].data.set, "key")]

\* C6: a request one of whose store calls (collection, find, insert, update,
\* remove) reported an error is answered with 403: it gets no record, no key
\* and no success value.
C6_StoreErrorForbidden ==
  \A r \in Slots : Ended(r) /\ failed[r] => Forbidden(r)

InFlight(r) == pc[r] \in {"find", "write", "reread", "remove"}

\* the next callback of a request in flight
Proceed(r) ==
  \E err \in BOOLEAN :
    findCallback(r, err) \/ success(r, err) \/ rereadCallback(r, err) \/ removeCallback(r, err)

\* C7: after a store error in one request, every other request in flight is
\* still processed.
C7_ErrorIsolated ==
  \A q \in Slots :
    failed[q] => \A r \in Slots \ {q} : InFlight(r) => ENABLED Proceed(r)

\* C10: an update of an existing record removes the fields the request gives
\* as "", writes the other fields of the request, and retains the stored
\* fields the request does not name.
C10_UnsetOnUpdate ==
  [][\A r \in Slots :
       Writes(r) /\ write[r].op = "update" =>
         LET c == Coll(req[r].data.store)
             id == convertKey(Prop(req[r].data.set, "key"))
             fields == req[r].data.set.o
         IN \A d \in Stored(store[c], id) :
              \E d2 \in Stored(store'[c], id) :
                \A f \in (DOMAIN d \cup DOMAIN fields) \ {"key", "_id", "updated_at"} :
                  IF f \in DOMAIN fields
                  THEN IF fields[f] = Str(<<>>)
                       THEN f \notin DOMAIN d2
                       ELSE f \in DOMAIN d2 /\ d2[f] = fields[f]
                  ELSE f \in DOMAIN d2 /\ d2[f] = d[f]]_vars

\* C8: at most two connection attempts are made; the second only after the
\* first failed and the backoff timer fired; none after a success; after the
\* second failure the store is unavailable; connected and unavailable are
\* both final.
C8_ConnectionLifecycle ==
  /\ [](attempts <= 2)
  /\ [](mongodb = "null" => attempts = 2 /\ failures = 2)
  /\ [](failures = 2 => connPc = "ready" /\ mongodb = "null")
  /\ [][attempts' # attempts =>
          /\ attempts' = attempts + 1
          /\ mongodb = "module"
          /\ attempts = 1 => failures = 1 /\ waited]_vars
  /\ [][mongodb # "module" => mongodb' = mongodb /\ attempts' = attempts]_vars

\* both attempts failed and the store is marked unavailable
C8_Witness == attempts = 2 /\ failures = 2 /\ mongodb = "null" /\ connPc = "ready" /\ waited

\* C9: on every path of the connection lifecycle the callback of
\* connectMongoDB is eventually called, and exactly once: the webserver is
\* started once, and no request is handled before the connection is final.
C9_ReadyExactlyOnce ==
  /\ <>(readyCalls = 1 /\ listening)
  /\ [](readyCalls <= 1)
  /\ [](listening => readyCalls = 1 /\ connPc = "ready" /\ mongodb \in {"db", "null"})
  /\ [](received > 0 => listening)

\* the webserver started after both attempts failed, and it handled a request
C9_Witness == readyCalls = 1 /\ listening /\ failures = 2 /\ mongodb = "null" /\ received > 0


\* request r completes its remove in this step, the store reporting no error
Removes(r) == pc[r] = "remove" /\ pc'[r] = "done" /\ ~failed'[r]

\* the record a document is read as: its fields without the identifier
FieldsOf(doc) == [f \in DOMAIN doc \ {"_id"} |-> doc[f]]

\* C11: del reads the record under the key, then removes the document whose
\* identifier is the converted key, and yields the record read before, or null
\* without error when there was none (the store is left as it was); with no
\* writer around, a get of the key after the del yields null.
C11_DelReadsThenRemoves ==
  /\ [][\A r \in Slots :
          Removes(r) =>
            LET c == req[r].data.store
                key == req[r].data.del
                id == convertKey(key)
                before == Stored(store[c], id)
            IN /\ calls[r] = <<"collection", "find", "remove">>
               /\ store'[c] = store[c] \ before
               /\ \A c2 \in Colls \ {c} : store'[c2] = store[c2]
               /\ result'[r] = existing[r]
               /\ ~crashed'
               /\ resp'[r].status = 200
               /\ before = {} => result'[r] = Null /\ store' = store
               /\ \A d \in before :
                    /\ result'[r].t = "obj"
                    /\ convertKey(Prop(result'[r], "key")) = id
                    /\ [f \in DOMAIN result'[r].o \ {"key"} |-> result'[r].o[f]] = FieldsOf(d)]_vars
  /\ [](\A r \in Slots :
          pc[r] = "done" /\ Operation(req[r].data) = "del" /\ ~failed[r] /\ Quiet =>
            LET docs == Find(store[Coll(req[r].data.store)], FindQuery(req[r].data.del))
            IN \A res \in Orders(docs) : getDataset(req[r].data.del, res) = Null)

\* a del of a stored record has completed and yielded that record
C11_Witness ==
  \E r \in Slots :
    /\ pc[r] = "done"
    /\ Operation(req[r].data) = "del"
    /\ ~failed[r]
    /\ result[r].t = "obj"
    /\ Prop(result[r], "name") = Str(s_Ann)
    /\ store[Undef] = {}


\* request r completes a get in this step, the store reporting no error
Gets(r) ==
  pc[r] = "find" /\ pc'[r] = "done" /\ ~failed'[r] /\ Operation(req[r].data) = "get"

\* a record read from a document: an object with the key of the identifier
\* and the other fields of the document, and no identifier field
RecordOf(rec, doc) ==
  /\ rec.t = "obj"
  /\ "key" \in DOMAIN rec.o
  /\ "_id" \notin DOMAIN rec.o
  /\ convertKey(rec.o["key"]) = doc["_id"]
  /\ [f \in DOMAIN rec.o \ {"key"} |-> rec.o[f]] = FieldsOf(doc)

\* C12: a get by key yields the record stored under the converted key, or
\* null when there is none, never an array; a get by a plain object yields an
\* array with one record for each matching document, each with its key and
\* without the identifier field.
C12_GetResult ==
  [][\A r \in Slots :
       Gets(r) =>
         LET get == req[r].data.get
             docs == store[req[r].data.store]
             out == result'[r]
         IN /\ resp'[r] = [status |-> 200, body |-> out]
            /\ store' = store
            /\ isKey(get) =>
                 LET found == Stored(docs, convertKey(get))
                 IN /\ out.t # "arr"
                    /\ found = {} => out = Null
                    /\ \A d \in found : RecordOf(out, d)
            /\ isObject(get) =>
                 LET matching == {d \in docs : \A f \in DOMAIN get.o :
                                                 f \in DOMAIN d /\ d[f] = get.o[f]}
                 IN /\ out.t = "arr"
                    /\ Len(out.a) = Cardinality(matching)
                    /\ \A d \in matching : \E i \in 1..Len(out.a) : RecordOf(out.a[i], d)
                    /\ \A i \in 1..Len(out.a) : \E d \in matching : RecordOf(out.a[i], d)]_vars

\* a get by a filter has yielded one of two stored records
C12_Witness ==
  \E r \in Slots :
    /\ pc[r] = "done"
    /\ Operation(req[r].data) = "get"
    /\ isObject(req[r].data.get)
    /\ DOMAIN req[r].data.get.o = {"name"}
    /\ result[r].t = "arr"
    /\ Len(result[r].a) = 1
    /\ Cardinality(store[Undef]) = 2


\* C13: convertKey maps two distinct accepted keys to distinct identifiers,
\* a single token and the one-element composite key of that token included.
C13_ConvertKeyInjective ==
  cpc # "input" /\ cpc # "off" =>
    \A k \in Keys : k # key_in => convertKey(k) # id_out

\* C14: a string key, and a composite key of two or more tokens, comes back
\* from convertKey followed by reconvertKey as it was.
C14_KeyRoundTrip ==
  cpc = "reconverted" /\ isKey(key_in) /\ (key_in.t = "str" \/ Len(key_in.a) >= 2) =>
    key_back = key_in

\* a composite key of two tokens has made the round trip
C14_Witness ==
  /\ cpc = "reconverted"
  /\ key_in.t = "arr"
  /\ Len(key_in.a) = 2
  /\ id_out.t = "str"
  /\ Len(id_out.s) = 3
  /\ key_back = key_in

\* the fields of a dataset besides its key
OtherFields(rec) == [f \in DOMAIN rec.o \ {"key"} |-> rec.o[f]]

\* C18: a dataset comes back from convertDataset followed by
\* reconvertDataset with a key of the same identifier and exactly its other
\* fields, whatever they are.
C18_DatasetRoundTrip ==
  cpc = "reconverted" =>
    /\ rec_back.t = "obj"
    /\ convertKey(Prop(rec_back, "key")) = convertKey(Prop(rec_in, "key"))
    /\ OtherFields(rec_back) = OtherFields(rec_in)

\* C15: every completed write of a set, insert as well as update, leaves no
\* field of the request that was given as "" in the stored record.
C15_EmptyNeverWritten ==
  [][\A r \in Slots :
       Writes(r) =>
         LET c == Coll(req[r].data.store)
             id == convertKey(Prop(req[r].data.set, "key"))
             fields == req[r].data.set.o
         IN \A d \in Stored(store'[c], id) :
              \A f \in DOMAIN fields \ {"key"} :
                fields[f] = Str(<<>>) => f \notin DOMAIN d \/ d[f] # Str(<<>>)]_vars

\* C16: nothing holds a request back while another one is between the read
\* and the write of its set: the read of a second request, the write of a
\* second set and the remove of a del can all run then.
C16_SetNotAtomic ==
  \A r \in Slots :
    pc[r] = "write" /\ ~crashed =>
      \A q \in Slots \ {r} :
        /\ pc[q] = "find" => ENABLED findCallback(q, FALSE)
        /\ pc[q] = "write" => ENABLED success(q, FALSE)
        /\ pc[q] = "remove" => ENABLED removeCallback(q, FALSE)

\* two sets of the same absent key have both read "no dataset" and both are
\* about to insert
C16_Witness ==
  \E r \in Slots :
    \E q \in Slots \ {r} :
      /\ pc[r] = "write"
      /\ pc[q] = "write"
      /\ write[r].op = "insert"
      /\ write[q].op = "insert"
      /\ write[r].id = write[q].id
      /\ existing[r] = Null
      /\ existing[q] = Null
      /\ Stored(store[Coll(req[r].data.store)], write[r].id) = {}

\* C17: with the store connected and no store call reporting an error, no
\* accepted request ends without a response, and a request that has ended
\* carries one response, 200 or 403, under any interleaving.
C17_OneResponse ==
  (mongodb = "db" /\ \A q \in Slots : ~failed[q]) =>
    /\ ~crashed
    /\ \A r \in Slots :
         /\ pc[r] # "thrown"
         /\ pc[r] = "done" => resp[r].status \in {200, 403}

\* the documents of a collection stored under other identifiers than id
Others(docs, id) == {d \in docs : d["_id"] # id}

\* the key of the set or del operation of the data
WriteKey(data) == IF Operation(data) = "set" THEN Prop(data.set, "key") ELSE data.del

\* C19: the store changes only in the write step of a set or the remove step
\* of a del, of a request that passed the checks; the step changes at most
\* the one document under the converted key in the collection the request
\* names, and no other document and no other collection. Get requests and
\* rejected requests change nothing.
C19_Frame ==
  [][store' # store =>
       \E r \in Slots :
         LET data == req[r].data
             c == Coll(data.store)
             id == convertKey(WriteKey(data))
         IN /\ \/ pc[r] = "write" /\ pc'[r] = "reread" /\ Operation(data) = "set"
               \/ pc[r] = "remove" /\ pc'[r] = "done" /\ Operation(data) = "del"
            /\ mongodb = "db"
            /\ checkReceivedData(data)
            /\ Others(store'[c], id) = Others(store[c], id)
            /\ Cardinality(Stored(store'[c], id)) <= 1
            /\ \A c2 \in Colls \ {c} : store'[c2] = store[c2]]_vars

\* an update has completed in a collection that holds a second document
C19_Witness ==
  \E r \in Slots :
    /\ pc[r] = "done"
    /\ ~failed[r]
    /\ Operation(req[r].data) = "set"
    /\ calls[r] = <<"collection", "find", "update", "find">>
    /\ LET c == Coll(req[r].data.store)
           id == convertKey(Prop(req[r].data.set, "key"))
       IN /\ Cardinality(Stored(store[c], id)) = 1
          /\ Cardinality(Others(store[c], id)) = 1

====
